---- MODULE Spec2Model ----
(***************************************************************************)
(* Model of desktop_init.py: the running-instance detector, the instance   *)
(* policy and the launch loop of main().                                   *)
(*                                                                         *)
(* Python strings are sequences of one-character strings, so that          *)
(* lower(), endswith(), "in" and os.path.splitext are computed as Python   *)
(* computes them.  Python's None (for a string) is the one-element         *)
(* sequence <<"None">>, which is no string of the model's alphabet.        *)
(***************************************************************************)
EXTENDS Integers, Sequences, FiniteSets, TLC

VARIABLES
    args,                 \* the parsed command line (argparse namespace)
    allow_multiple_default, \* global, set by parse_arguments
    restricted_programs,  \* global, set by parse_arguments
    shell,                \* global: WScript.Shell could be created
    links,                \* environment: what shell.CreateShortCut gives per file
    oswindows,            \* environment: the top-level windows of the OS
    dwmAvail,             \* environment: SimpleDesktop() can be constructed
    procs,                \* environment: psutil.process_iter()
    all_files,            \* main(): the files to process, in order
    launched_shortcuts,   \* global set of lowercased file names
    idx,                  \* main(): position of the for loop in all_files
    pc,                   \* main(): where the loop body stands
    counter,              \* main(): tick counter of the wait loop
    targetname,           \* main(): targetname resolved at line 753
    reports,              \* history: what was printed for each item
    spawns,               \* history: subprocess.Popen calls per item
    launches,             \* history: launch_file calls per item
    ticks,                \* history: time.sleep(1) calls per item
    polls,                \* history: IsFileAlreadyRunning calls in the wait loop per item
    steps,                \* history: steps of main() taken for each item
    delays,               \* history: time.sleep(args.delay) calls per item
    lastDetect,           \* history: the latest IsFileAlreadyRunning call of main()
    envSteps,             \* number of window changes so far (bounded)
    ret                   \* result of the function applied by a function-level spec

vars == <<args, allow_multiple_default, restricted_programs, shell, links,
          oswindows, dwmAvail, procs, all_files, launched_shortcuts, idx, pc,
          counter, targetname, reports, spawns, launches, ticks, polls, steps, delays,
          lastDetect, envSteps, ret>>

(***************************************************************************)
(* Bounds of the model.                                                    *)
(***************************************************************************)
MaxItems == 2
MaxWait == 3
MaxEnv == 1
MaxWins == 2

(***************************************************************************)
(* Python string primitives.                                               *)
(***************************************************************************)
None == <<"None">>

UPPER == <<"A","B","C","D","E","F","G","H","I","J","K","L","M",
           "N","O","P","Q","R","S","T","U","V","W","X","Y","Z">>
LOWER == <<"a","b","c","d","e","f","g","h","i","j","k","l","m",
           "n","o","p","q","r","s","t","u","v","w","x","y","z">>

LowerChar(c) ==
    IF \E i \in 1..26 : UPPER[i] = c
    THEN LOWER[CHOOSE i \in 1..26 : UPPER[i] = c]
    ELSE c

RECURSIVE Lower(_)
\* str.lower()
Lower(s) == IF s = <<>> THEN <<>> ELSE <<LowerChar(Head(s))>> \o Lower(Tail(s))

UpperChar(c) ==
    IF \E i \in 1..26 : LOWER[i] = c
    THEN UPPER[CHOOSE i \in 1..26 : LOWER[i] = c]
    ELSE c

RECURSIVE Upper(_)
\* str.upper()
Upper(s) == IF s = <<>> THEN <<>> ELSE <<UpperChar(Head(s))>> \o Upper(Tail(s))

\* sub in s
Contains(sub, s) ==
    \E i \in 0..(Len(s) - Len(sub)) : SubSeq(s, i + 1, i + Len(sub)) = sub

\* s.endswith(suf)
EndsWith(s, suf) ==
    /\ Len(suf) <= Len(s)
    /\ SubSeq(s, Len(s) - Len(suf) + 1, Len(s)) = suf

\* os.path.splitext(p) for a name without directory part: the extension starts
\* at the last dot, unless only dots precede that dot.
splitext(p) ==
    LET dots == {i \in 1..Len(p) : p[i] = "."}
        dotIndex == IF dots = {} THEN 0
                    ELSE CHOOSE i \in dots : \A j \in dots : j <= i
    IN  IF dotIndex > 0 /\ \E k \in 1..(dotIndex - 1) : p[k] # "."
        THEN <<SubSeq(p, 1, dotIndex - 1), SubSeq(p, dotIndex, Len(p))>>
        ELSE <<p, <<>>>>

\* os.path.basename(p): what follows the last "/"
path_basename(p) ==
    LET seps == {i \in 1..Len(p) : p[i] = "/"}
        last == IF seps = {} THEN 0
                ELSE CHOOSE i \in seps : \A j \in seps : j <= i
    IN  SubSeq(p, last + 1, Len(p))

EXT_LNK == <<".","l","n","k">>
EXT_EXE == <<".","e","x","e">>
EXT_AHK == <<".","a","h","k">>
EXT_BAT == <<".","b","a","t">>
EXT_CMD == <<".","c","m","d">>
EXT_PS1 == <<".","p","s","1">>
EXT_VBS == <<".","v","b","s">>
EXT_COM == <<".","c","o","m">>
AUTOHOTKEY == <<"a","u","t","o","h","o","t","k","e","y">>
UNKNOWN == <<"U","n","k","n","o","w","n">>
MARK_DASHES == <<"-","-">>
MARK_SPACED == <<" ","-"," ">>

EXECUTABLE_EXTENSIONS ==
    {EXT_EXE, EXT_BAT, EXT_CMD, EXT_AHK, EXT_PS1, EXT_VBS, EXT_COM}

\* the directory holds files only; ext.strip() changes nothing for the
\* extensions of the model (no whitespace in them)
is_native_executable(filename) ==
    Lower(splitext(filename)[2]) \in EXECUTABLE_EXTENSIONS

(***************************************************************************)
(* parse_arguments: the part that builds the instance-policy configuration.*)
(* cli.restrict_list and cli.allow_list are sets of program names ({} when *)
(* the option is absent: argparse gives None, which the code only tests    *)
(* for truth).                                                             *)
(***************************************************************************)
parse_arguments(cli) ==
    [args |-> [restrict_all |-> cli.restrict_all,
               restrict_list |-> cli.restrict_list,
               allow_list |-> cli.allow_list,
               allowed_programs |->
                   IF cli.restrict_all /\ cli.allow_list # {}
                   THEN {Lower(prog) : prog \in cli.allow_list}
                   ELSE {},
               wait_time |-> cli.wait_time],
     allow_multiple_default |-> ~cli.restrict_all,
     restricted_programs |->
         IF ~cli.restrict_all /\ cli.restrict_list # {}
         THEN {Lower(prog) : prog \in cli.restrict_list}
         ELSE {}]

(***************************************************************************)
(* get_target_info                                                         *)
(***************************************************************************)
NoTarget == [targetname |-> None, targetname_noext |-> None, arguments |-> None]

get_target_info(filename, a) ==
    LET basename == Lower(splitext(filename)[1])
    IN  IF EndsWith(filename, EXT_LNK)
        THEN IF ~shell
             THEN NoTarget
             ELSE IF links[filename].ok
                  THEN LET tn == path_basename(Lower(links[filename].Targetpath))
                       IN  [targetname |-> tn,
                            targetname_noext |-> splitext(tn)[1],
                            arguments |-> links[filename].Arguments]
                  ELSE NoTarget
        ELSE IF is_native_executable(filename)
             THEN [targetname |-> Lower(filename),
                   targetname_noext |-> basename,
                   arguments |-> <<>>]
             ELSE NoTarget

(***************************************************************************)
(* should_allow_multiple                                                   *)
(***************************************************************************)
HasMarker(filename) ==
    Contains(MARK_DASHES, filename) \/ Contains(MARK_SPACED, filename)

target_base_of(shortcut_targetname) ==
    LET t == Lower(shortcut_targetname)
    IN  IF EndsWith(t, EXT_EXE) THEN SubSeq(t, 1, Len(t) - 4) ELSE t

\* mutant: the filename markers are looked at after the restrict-all rules
should_allow_multiple_markerLast(filename, shortcut_targetname, a) ==
    IF shortcut_targetname = None THEN allow_multiple_default
    ELSE LET target_base == target_base_of(shortcut_targetname)
             shortcut_base == Lower(splitext(filename)[1])
         IN  IF a.restrict_all /\ a.allowed_programs # {}
             THEN \E allowed \in a.allowed_programs :
                      Contains(allowed, target_base) \/ Contains(allowed, shortcut_base)
             ELSE IF a.restrict_all THEN FALSE
             ELSE IF HasMarker(filename) THEN TRUE
             ELSE IF \E restricted \in restricted_programs :
                        Contains(restricted, target_base)
                        \/ Contains(restricted, shortcut_base)
                  THEN FALSE
                  ELSE allow_multiple_default

\* mutant: an unparseable file is given multiple instances
should_allow_multiple_noneAllows(filename, shortcut_targetname, a) ==
    IF shortcut_targetname = None THEN TRUE
    ELSE LET target_base == target_base_of(shortcut_targetname)
             shortcut_base == Lower(splitext(filename)[1])
         IN  IF HasMarker(filename) THEN TRUE
             ELSE IF a.restrict_all /\ a.allowed_programs # {}
             THEN \E allowed \in a.allowed_programs :
                      Contains(allowed, target_base) \/ Contains(allowed, shortcut_base)
             ELSE IF a.restrict_all THEN FALSE
             ELSE IF \E restricted \in restricted_programs :
                        Contains(restricted, target_base)
                        \/ Contains(restricted, shortcut_base)
                  THEN FALSE
                  ELSE allow_multiple_default

\* mutant: the allow list is looked at in both modes
should_allow_multiple_allowListAlways(filename, shortcut_targetname, a) ==
    IF shortcut_targetname = None THEN allow_multiple_default
    ELSE LET target_base == target_base_of(shortcut_targetname)
             shortcut_base == Lower(splitext(filename)[1])
         IN  IF HasMarker(filename) THEN TRUE
             ELSE IF \E allowed \in a.allow_list :
                        Contains(Lower(allowed), target_base)
                        \/ Contains(Lower(allowed), shortcut_base)
             THEN TRUE
             ELSE IF a.restrict_all THEN FALSE
             ELSE IF \E restricted \in restricted_programs :
                        Contains(restricted, target_base)
                        \/ Contains(restricted, shortcut_base)
                  THEN FALSE
                  ELSE allow_multiple_default

should_allow_multiple(filename, shortcut_targetname, a) ==
    IF shortcut_targetname = None THEN allow_multiple_default
    ELSE LET target_base == target_base_of(shortcut_targetname)
             shortcut_base == Lower(splitext(filename)[1])
         IN  IF HasMarker(filename) THEN TRUE
             ELSE IF a.restrict_all /\ a.allowed_programs # {}
             THEN \E allowed \in a.allowed_programs :
                      Contains(allowed, target_base) \/ Contains(allowed, shortcut_base)
             ELSE IF a.restrict_all THEN FALSE
             ELSE IF \E restricted \in restricted_programs :
                        Contains(restricted, target_base)
                        \/ Contains(restricted, shortcut_base)
                  THEN FALSE
                  ELSE allow_multiple_default

(***************************************************************************)
(* Window enumeration.  An OS window is a record                           *)
(*   [hwnd, title, process_name, proc_ok, visible, cloaked, dwm]           *)
(* visible: IsWindowVisible; cloaked: the DWMWA_CLOAKED attribute; dwm:    *)
(* how DwmGetWindowAttribute ends ("ok": returns 0, "fail": returns an     *)
(* error code, "raise": raises); proc_ok: the process name can be read.    *)
(* The handle enum_handler receives is the POINTER(c_int) the WNDENUMPROC   *)
(* of lines 126-130 declares, and wintypes.HWND of such a pointer (line 56) *)
(* raises TypeError: with the real ctypes the query ends by "raise", which  *)
(* is what OsWindow gives every window; with an integer handle it would     *)
(* end as DwmGetWindowAttribute ends ("ok" or "fail").                      *)
(***************************************************************************)
WindowInfo(hwnd, title, process_name) ==
    [id |-> hwnd, text |-> title, process_name |-> process_name,
     is_on_active_desktop |-> TRUE]

\* mutant: the except branch of lines 64-66 answers False
is_window_on_current_desktop_noFallback(w) ==
    IF w.dwm = "raise"
    THEN FALSE
    ELSE IF ~w.visible THEN FALSE
         ELSE w.dwm = "ok" /\ ~w.cloaked

is_window_on_current_desktop(w) ==
    IF w.dwm = "raise"
    THEN w.visible
    ELSE IF ~w.visible THEN FALSE
         ELSE w.dwm = "ok" /\ ~w.cloaked

get_process_name_from_hwnd(w) ==
    IF w.proc_ok THEN w.process_name ELSE UNKNOWN

enumerate_desktop_windows(ws) ==
    {WindowInfo(w.hwnd, w.title, get_process_name_from_hwnd(w)) :
        w \in {x \in ws : x.title # <<>> /\ is_window_on_current_desktop(x)}}

\* mutant: the records of the fallback are not flagged as on the desktop
FallbackDesktop_unflagged(ps) ==
    {[WindowInfo(p.pid, p.name, p.name) EXCEPT !.is_on_active_desktop = FALSE] :
        p \in {q \in ps : q.name # <<>>}}

\* FallbackDesktop.__iter__: one record per process that has a name
FallbackDesktop(ps) ==
    {WindowInfo(p.pid, p.name, p.name) : p \in {q \in ps : q.name # <<>>}}

\* the desktop IsFileAlreadyRunning iterates (lines 403-409)
Desktop ==
    IF dwmAvail THEN enumerate_desktop_windows(oswindows) ELSE FallbackDesktop(procs)

(***************************************************************************)
(* IsFileAlreadyRunning                                                    *)
(***************************************************************************)
strip_exe(process_name) ==
    IF EndsWith(process_name, EXT_EXE)
    THEN SubSeq(process_name, 1, Len(process_name) - 4)
    ELSE process_name

\* lines 429-436: one window of the multi-instance check
MultiMatch(filename, window) ==
    LET basename == Lower(splitext(filename)[1])
    IN  window.is_on_active_desktop /\ Contains(basename, Lower(window.text))

\* mutant: any AutoHotkey window matches an .ahk file
SingleMatch_anyInterpreter(filename, info, window) ==
    LET basename == Lower(splitext(filename)[1])
        process_name == strip_exe(Lower(window.process_name))
        window_title == Lower(window.text)
    IN  /\ window.is_on_active_desktop
        /\ IF EndsWith(filename, EXT_AHK)
           THEN IF Contains(AUTOHOTKEY, process_name)
                THEN TRUE
                ELSE Contains(basename, window_title)
           ELSE \/ Contains(basename, process_name)
                \/ Contains(basename, info.arguments)
                \/ Contains(info.targetname_noext, process_name)

\* lines 440-478: one window of the single-instance check
SingleMatch(filename, info, window) ==
    LET basename == Lower(splitext(filename)[1])
        process_name == strip_exe(Lower(window.process_name))
        window_title == Lower(window.text)
    IN  /\ window.is_on_active_desktop
        /\ IF EndsWith(filename, EXT_AHK)
           THEN IF Contains(AUTOHOTKEY, process_name)
                THEN \/ Contains(basename, window_title)
                     \/ Contains(Lower(filename), window_title)
                ELSE Contains(basename, window_title)
           ELSE \/ Contains(basename, process_name)
                \/ Contains(basename, info.arguments)
                \/ Contains(info.targetname_noext, process_name)

\* mutant: the launched-this-run test comes after the parse test
IsFileAlreadyRunning_parseFirst(filename, a) ==
    LET info == get_target_info(filename, a)
    IN  IF info.targetname = None THEN FALSE
        ELSE IF Lower(filename) \in launched_shortcuts THEN TRUE
        ELSE IF should_allow_multiple(filename, info.targetname, a)
             THEN \E window \in Desktop : MultiMatch(filename, window)
             ELSE \E window \in Desktop : SingleMatch(filename, info, window)

\* mutant: the multi-instance check looks at process names, as the
\* single-instance check does
IsFileAlreadyRunning_multiByProcess(filename, a) ==
    LET info == get_target_info(filename, a)
    IN  IF Lower(filename) \in launched_shortcuts THEN TRUE
        ELSE IF info.targetname = None THEN FALSE
        ELSE \E window \in Desktop : SingleMatch(filename, info, window)

\* mutant: a file that cannot be parsed is looked for by its base name
IsFileAlreadyRunning_unparsedByTitle(filename, a) ==
    LET info == get_target_info(filename, a)
    IN  IF Lower(filename) \in launched_shortcuts THEN TRUE
        ELSE IF info.targetname = None
             THEN \E window \in Desktop : MultiMatch(filename, window)
        ELSE IF should_allow_multiple(filename, info.targetname, a)
             THEN \E window \in Desktop : MultiMatch(filename, window)
             ELSE \E window \in Desktop : SingleMatch(filename, info, window)

IsFileAlreadyRunning(filename, a) ==
    LET info == get_target_info(filename, a)
    IN  IF Lower(filename) \in launched_shortcuts THEN TRUE
        ELSE IF info.targetname = None THEN FALSE
        ELSE IF should_allow_multiple(filename, info.targetname, a)
             THEN \E window \in Desktop : MultiMatch(filename, window)
             ELSE \E window \in Desktop : SingleMatch(filename, info, window)

\* what a call of IsFileAlreadyRunning by main() leaves behind: where it was
\* called ("check": line 744, "poll": line 773) and for which item, its
\* result, and the windows it iterated (none when it returned before the loops)
DetectRecord(filename, a, phase, item) ==
    LET iterated == /\ Lower(filename) \notin launched_shortcuts
                    /\ get_target_info(filename, a).targetname # None
    IN  [called |-> TRUE,
         phase |-> phase,
         item |-> item,
         iterated |-> iterated,
         snapshot |-> IF iterated THEN Desktop ELSE {},
         result |-> IsFileAlreadyRunning(filename, a)]

NoDetect ==
    [called |-> FALSE, phase |-> "none", item |-> 0, iterated |-> FALSE,
     snapshot |-> {}, result |-> FALSE]

(***************************************************************************)
(* launch_file.  fails is the environment's answer: how many successive    *)
(* subprocess.Popen calls fail before one succeeds.  The result is whether *)
(* launch_file returns True, and how many Popen calls it made.  A failing  *)
(* Popen raises OSError (FileNotFoundError, PermissionError), which every  *)
(* except clause of launch_file catches.                                   *)
(***************************************************************************)
AHK_PATHS == 10

launch_file(filename, fails) ==
    IF EndsWith(filename, EXT_LNK)
    THEN [ok |-> fails = 0, popens |-> 1]
    ELSE IF is_native_executable(filename)
    THEN IF Lower(splitext(filename)[2]) = EXT_AHK
         THEN IF fails < AHK_PATHS
              THEN [ok |-> TRUE, popens |-> fails + 1]
              ELSE [ok |-> fails = AHK_PATHS, popens |-> AHK_PATHS + 1]
         ELSE [ok |-> fails = 0, popens |-> 1]
    ELSE [ok |-> FALSE, popens |-> 0]

\* the answers of the environment tried for a file: for an .ahk file the
\* first interpreter starts, the second does, the last does, only the file
\* association does, nothing does; for any other file Popen succeeds or fails
PopenAnswers(filename) ==
    IF ~EndsWith(filename, EXT_LNK) /\ Lower(splitext(filename)[2]) = EXT_AHK
    THEN {0, 1, AHK_PATHS - 1, AHK_PATHS, AHK_PATHS + 1}
    ELSE {0, 1}

(***************************************************************************)
(* The inputs of a run of main().                                          *)
(***************************************************************************)
F_n_lnk == <<"n",".","l","n","k">>
F_N_exe == <<"N",".","e","x","e">>
F_s_ahk == <<"s",".","a","h","k">>
P_n == <<"n">>
P_s == <<"s">>

MainFiles == {F_n_lnk, F_N_exe, F_s_ahk}

BrokenLink == [ok |-> FALSE, Targetpath |-> <<>>, Arguments |-> <<>>]
Link(target, arguments) == [ok |-> TRUE, Targetpath |-> target, Arguments |-> arguments]

MainLinks == {BrokenLink, Link(<<"c","/","N",".","e","x","e">>, <<>>)}

OsWindow(hwnd, title, process_name) ==
    [hwnd |-> hwnd, title |-> title, process_name |-> process_name,
     proc_ok |-> TRUE, visible |-> TRUE, cloaked |-> FALSE, dwm |-> "raise"]

MainWindows ==
    {OsWindow(1, <<"N">>, <<"n",".","e","x","e">>),
     OsWindow(2, <<"s">>, <<"A","u","t","o","H","o","t","k","e","y",".","e","x","e">>)}

\* --restrict-all with or without -am s; or -rm n, or no option at all
MainCommandLines ==
    [restrict_all : {TRUE}, restrict_list : {{}},
     allow_list : {{}, {P_s}}, wait_time : 0..MaxWait]
    \cup [restrict_all : {FALSE}, restrict_list : {{}, {P_n}},
          allow_list : {{}}, wait_time : 0..MaxWait]

\* main() lines 645-663: the .lnk files first, then the native files, each once
FileLists(files) ==
    {fs \in UNION {[1..n -> files] : n \in 1..MaxItems} :
        /\ \A i, j \in 1..Len(fs) : i # j => fs[i] # fs[j]
        /\ \A i, j \in 1..Len(fs) :
              (EndsWith(fs[i], EXT_LNK) /\ ~EndsWith(fs[j], EXT_LNK)) => i < j}

NoRet == [called |-> FALSE, value |-> FALSE]

Init ==
    /\ \E cli \in MainCommandLines :
          LET p == parse_arguments(cli)
          IN  /\ args = p.args
              /\ allow_multiple_default = p.allow_multiple_default
              /\ restricted_programs = p.restricted_programs
    /\ all_files \in FileLists(MainFiles)
    /\ shell \in BOOLEAN
    /\ links \in [{F_n_lnk} -> MainLinks]
    /\ oswindows \in SUBSET MainWindows
    /\ dwmAvail = TRUE
    /\ procs = {}
    /\ launched_shortcuts = {}
    /\ idx = 1
    /\ pc = "check"
    /\ counter = 0
    /\ targetname = None
    /\ reports = [i \in 1..Len(all_files) |-> {}]
    /\ spawns = [i \in 1..Len(all_files) |-> 0]
    /\ launches = [i \in 1..Len(all_files) |-> 0]
    /\ ticks = [i \in 1..Len(all_files) |-> 0]
    /\ polls = [i \in 1..Len(all_files) |-> 0]
    /\ steps = [i \in 1..Len(all_files) |-> 0]
    /\ delays = [i \in 1..Len(all_files) |-> 0]
    /\ lastDetect = NoDetect
    /\ envSteps = 0
    /\ ret = NoRet

(***************************************************************************)
(* main(): the loop over all_files, lines 730-783.                         *)
(***************************************************************************)
MULTI_TICKS == 2

Report(label) == [reports EXCEPT ![idx] = @ \cup {label}]

\* the for loop goes to its next file
NextFile ==
    /\ idx' = idx + 1
    /\ pc' = IF idx + 1 > Len(all_files) THEN "done" ELSE "check"

config == <<args, allow_multiple_default, restricted_programs, shell, links,
            dwmAvail, procs, all_files, ret>>

\* mutant: a file found running is launched all the same
PreCheck_launchAnyway ==
    /\ pc = "check"
    /\ LET filename == all_files[idx]
       IN  IF /\ EndsWith(filename, EXT_LNK)
              /\ get_target_info(filename, args).targetname = None
           THEN /\ reports' = Report("ResolutionFailed")
                /\ NextFile
                /\ UNCHANGED lastDetect
           ELSE /\ lastDetect' = DetectRecord(filename, args, "check", idx)
                /\ reports' = IF IsFileAlreadyRunning(filename, args)
                              THEN Report("Skipped") ELSE reports
                /\ pc' = "launch"
                /\ UNCHANGED idx
    /\ steps' = [steps EXCEPT ![idx] = @ + 1]
    /\ UNCHANGED <<config, oswindows, launched_shortcuts, counter, targetname,
                   spawns, launches, ticks, polls, delays, envSteps>>

\* mutant: a skipped file is recorded as launched
PreCheck_recordSkipped ==
    /\ pc = "check"
    /\ LET filename == all_files[idx]
       IN  IF /\ EndsWith(filename, EXT_LNK)
              /\ get_target_info(filename, args).targetname = None
           THEN /\ reports' = Report("ResolutionFailed")
                /\ NextFile
                /\ UNCHANGED <<lastDetect, launched_shortcuts>>
           ELSE /\ lastDetect' = DetectRecord(filename, args, "check", idx)
                /\ IF ~IsFileAlreadyRunning(filename, args)
                   THEN /\ pc' = "launch"
                        /\ UNCHANGED <<idx, reports, launched_shortcuts>>
                   ELSE /\ reports' = Report("Skipped")
                        /\ launched_shortcuts' = launched_shortcuts \cup {Lower(filename)}
                        /\ NextFile
    /\ steps' = [steps EXCEPT ![idx] = @ + 1]
    /\ UNCHANGED <<config, oswindows, counter, targetname,
                   spawns, launches, ticks, polls, delays, envSteps>>

\* lines 731-744 and 782-783
PreCheck ==
    /\ pc = "check"
    /\ LET filename == all_files[idx]
       IN  IF /\ EndsWith(filename, EXT_LNK)
              /\ get_target_info(filename, args).targetname = None
           THEN /\ reports' = Report("ResolutionFailed")
                /\ NextFile
                /\ UNCHANGED lastDetect
           ELSE /\ lastDetect' = DetectRecord(filename, args, "check", idx)
                /\ IF ~IsFileAlreadyRunning(filename, args)
                   THEN /\ pc' = "launch"
                        /\ UNCHANGED <<idx, reports>>
                   ELSE /\ reports' = Report("Skipped")
                        /\ NextFile
    /\ steps' = [steps EXCEPT ![idx] = @ + 1]
    /\ UNCHANGED <<config, oswindows, launched_shortcuts, counter, targetname,
                   spawns, launches, ticks, polls, delays, envSteps>>

\* mutant: a failed launch is tried again
Launch_retry ==
    /\ pc = "launch"
    /\ LET filename == all_files[idx]
       IN  \E fails \in PopenAnswers(filename) :
             LET r == launch_file(filename, fails)
                 tn == get_target_info(filename, args).targetname
             IN  /\ spawns' = [spawns EXCEPT ![idx] = @ + r.popens]
                 /\ launches' = [launches EXCEPT ![idx] = @ + 1]
                 /\ IF r.ok
                    THEN /\ launched_shortcuts' = launched_shortcuts \cup {Lower(filename)}
                         /\ counter' = 0
                         /\ targetname' = tn
                         /\ IF tn = None
                            THEN /\ reports' = Report("CannotVerify")
                                 /\ delays' = [delays EXCEPT ![idx] = @ + 1]
                                 /\ NextFile
                            ELSE /\ pc' = "poll"
                                 /\ UNCHANGED <<idx, reports, delays>>
                    ELSE /\ reports' = Report("LaunchFailed")
                         /\ IF launches[idx] < 1 THEN UNCHANGED <<idx, pc>> ELSE NextFile
                         /\ UNCHANGED <<launched_shortcuts, counter, targetname, delays>>
    /\ steps' = [steps EXCEPT ![idx] = @ + 1]
    /\ UNCHANGED <<config, oswindows, ticks, polls, lastDetect, envSteps>>

\* mutant: a failed launch ends the whole run
Launch_abortOnFailure ==
    /\ pc = "launch"
    /\ LET filename == all_files[idx]
       IN  \E fails \in PopenAnswers(filename) :
             LET r == launch_file(filename, fails)
                 tn == get_target_info(filename, args).targetname
             IN  /\ spawns' = [spawns EXCEPT ![idx] = @ + r.popens]
                 /\ launches' = [launches EXCEPT ![idx] = @ + 1]
                 /\ IF r.ok
                    THEN /\ launched_shortcuts' = launched_shortcuts \cup {Lower(filename)}
                         /\ counter' = 0
                         /\ targetname' = tn
                         /\ IF tn = None
                            THEN /\ reports' = Report("CannotVerify")
                                 /\ delays' = [delays EXCEPT ![idx] = @ + 1]
                                 /\ NextFile
                            ELSE /\ pc' = "poll"
                                 /\ UNCHANGED <<idx, reports, delays>>
                    ELSE /\ reports' = Report("LaunchFailed")
                         /\ pc' = "done"
                         /\ UNCHANGED <<idx, launched_shortcuts, counter, targetname, delays>>
    /\ steps' = [steps EXCEPT ![idx] = @ + 1]
    /\ UNCHANGED <<config, oswindows, ticks, polls, lastDetect, envSteps>>

\* mutant: the file is recorded as launched whether or not it started
Launch_recordAlways ==
    /\ pc = "launch"
    /\ LET filename == all_files[idx]
       IN  \E fails \in PopenAnswers(filename) :
             LET r == launch_file(filename, fails)
                 tn == get_target_info(filename, args).targetname
             IN  /\ spawns' = [spawns EXCEPT ![idx] = @ + r.popens]
                 /\ launches' = [launches EXCEPT ![idx] = @ + 1]
                 /\ launched_shortcuts' = launched_shortcuts \cup {Lower(filename)}
                 /\ IF r.ok
                    THEN /\ counter' = 0
                         /\ targetname' = tn
                         /\ IF tn = None
                            THEN /\ reports' = Report("CannotVerify")
                                 /\ delays' = [delays EXCEPT ![idx] = @ + 1]
                                 /\ NextFile
                            ELSE /\ pc' = "poll"
                                 /\ UNCHANGED <<idx, reports, delays>>
                    ELSE /\ reports' = Report("LaunchFailed")
                         /\ NextFile
                         /\ UNCHANGED <<counter, targetname, delays>>
    /\ steps' = [steps EXCEPT ![idx] = @ + 1]
    /\ UNCHANGED <<config, oswindows, ticks, polls, lastDetect, envSteps>>

\* lines 745-759: launch_file, and what follows it up to the wait loop
Launch ==
    /\ pc = "launch"
    /\ LET filename == all_files[idx]
       IN  \E fails \in PopenAnswers(filename) :
             LET r == launch_file(filename, fails)
                 tn == get_target_info(filename, args).targetname
             IN  /\ spawns' = [spawns EXCEPT ![idx] = @ + r.popens]
                 /\ launches' = [launches EXCEPT ![idx] = @ + 1]
                 /\ IF r.ok
                    THEN /\ launched_shortcuts' = launched_shortcuts \cup {Lower(filename)}
                         /\ counter' = 0
                         /\ targetname' = tn
                         /\ IF tn = None
                            THEN /\ reports' = Report("CannotVerify")
                                 /\ delays' = [delays EXCEPT ![idx] = @ + 1]
                                 /\ NextFile
                            ELSE /\ pc' = "poll"
                                 /\ UNCHANGED <<idx, reports, delays>>
                    ELSE /\ reports' = Report("LaunchFailed")
                         /\ NextFile
                         /\ UNCHANGED <<launched_shortcuts, counter, targetname, delays>>
    /\ steps' = [steps EXCEPT ![idx] = @ + 1]
    /\ UNCHANGED <<config, oswindows, ticks, polls, lastDetect, envSteps>>

\* lines 761-763: a turn of the wait loop begins; the counter goes up and
\* main() sleeps one second, during which windows may open and close
Tick ==
    /\ pc = "poll"
    /\ counter < args.wait_time
    /\ counter' = counter + 1
    /\ ticks' = [ticks EXCEPT ![idx] = @ + 1]
    /\ pc' = "sleep"
    /\ steps' = [steps EXCEPT ![idx] = @ + 1]
    /\ UNCHANGED <<config, oswindows, launched_shortcuts, idx, targetname, reports,
                   spawns, launches, polls, delays, lastDetect, envSteps>>

\* mutant: the wait loop goes on after the detector has found the item
Poll_noBreak ==
    /\ pc = "sleep"
    /\ LET filename == all_files[idx]
       IN  IF should_allow_multiple(filename, targetname, args)
           THEN /\ UNCHANGED <<lastDetect, polls>>
                /\ IF counter >= MULTI_TICKS
                   THEN reports' = Report("Confirmed") /\ pc' = "post"
                   ELSE UNCHANGED reports /\ pc' = "poll"
           ELSE /\ lastDetect' = DetectRecord(filename, args, "poll", idx)
                /\ polls' = [polls EXCEPT ![idx] = @ + 1]
                /\ IF IsFileAlreadyRunning(filename, args)
                   THEN reports' = Report("Confirmed") /\ pc' = "poll"
                   ELSE UNCHANGED reports /\ pc' = "poll"
    /\ steps' = [steps EXCEPT ![idx] = @ + 1]
    /\ UNCHANGED <<config, oswindows, launched_shortcuts, idx, counter, targetname,
                   spawns, launches, ticks, delays, envSteps>>

\* lines 765-776: after the sleep, the rest of the turn of the wait loop
Poll ==
    /\ pc = "sleep"
    /\ LET filename == all_files[idx]
       IN  IF should_allow_multiple(filename, targetname, args)
           THEN /\ UNCHANGED <<lastDetect, polls>>
                /\ IF counter >= MULTI_TICKS
                   THEN reports' = Report("Confirmed") /\ pc' = "post"
                   ELSE UNCHANGED reports /\ pc' = "poll"
           ELSE /\ lastDetect' = DetectRecord(filename, args, "poll", idx)
                /\ polls' = [polls EXCEPT ![idx] = @ + 1]
                /\ IF IsFileAlreadyRunning(filename, args)
                   THEN reports' = Report("Confirmed") /\ pc' = "post"
                   ELSE UNCHANGED reports /\ pc' = "poll"
    /\ steps' = [steps EXCEPT ![idx] = @ + 1]
    /\ UNCHANGED <<config, oswindows, launched_shortcuts, idx, counter, targetname,
                   spawns, launches, ticks, delays, envSteps>>

\* mutant: the timeout is reported only when the counter went past wait_time
Finish_strict ==
    /\ pc = "post" \/ (pc = "poll" /\ counter >= args.wait_time)
    /\ reports' = IF counter > args.wait_time THEN Report("TimedOut") ELSE reports
    /\ delays' = [delays EXCEPT ![idx] = @ + 1]
    /\ NextFile
    /\ UNCHANGED <<config, oswindows, launched_shortcuts, counter, targetname,
                   spawns, launches, ticks, polls, lastDetect, envSteps>>
    /\ steps' = [steps EXCEPT ![idx] = @ + 1]

\* mutant: the loop goes to the next file without the pause
Finish_noDelay ==
    /\ pc = "post" \/ (pc = "poll" /\ counter >= args.wait_time)
    /\ reports' = IF counter >= args.wait_time THEN Report("TimedOut") ELSE reports
    /\ NextFile
    /\ UNCHANGED <<config, oswindows, launched_shortcuts, counter, targetname,
                   spawns, launches, ticks, polls, delays, lastDetect, envSteps>>
    /\ steps' = [steps EXCEPT ![idx] = @ + 1]

\* lines 778-781: after the wait loop (left by break, or by its condition)
Finish ==
    /\ pc = "post" \/ (pc = "poll" /\ counter >= args.wait_time)
    /\ reports' = IF counter >= args.wait_time THEN Report("TimedOut") ELSE reports
    /\ delays' = [delays EXCEPT ![idx] = @ + 1]
    /\ NextFile
    /\ steps' = [steps EXCEPT ![idx] = @ + 1]
    /\ UNCHANGED <<config, oswindows, launched_shortcuts, counter, targetname,
                   spawns, launches, ticks, polls, lastDetect, envSteps>>

\* environment: a window opens or closes while main() runs
WindowsChange ==
    /\ pc \in {"check", "launch", "poll", "sleep", "post"}
    /\ envSteps < MaxEnv
    /\ envSteps' = envSteps + 1
    /\ \E w \in MainWindows :
          oswindows' = IF w \in oswindows THEN oswindows \ {w} ELSE oswindows \cup {w}
    /\ UNCHANGED <<config, launched_shortcuts, idx, pc, counter, targetname,
                   reports, spawns, launches, ticks, polls, steps, delays, lastDetect>>

Next == PreCheck \/ Launch \/ Tick \/ Poll \/ Finish \/ WindowsChange

Spec == Init /\ [][Next]_vars

(***************************************************************************)
(* Properties of a run of main() (specification Spec).                     *)
(***************************************************************************)
Items == 1..Len(all_files)

\* the item has left the loop body
Processed(i) == i < idx

Unresolvable(i) == get_target_info(all_files[i], args).targetname = None

IsAhk(i) ==
    /\ ~EndsWith(all_files[i], EXT_LNK)
    /\ Lower(splitext(all_files[i])[2]) = EXT_AHK

SingleInstance(i) ==
    ~should_allow_multiple(all_files[i],
                           get_target_info(all_files[i], args).targetname, args)

\* C1 (as claimed): a shortcut the resolver cannot parse is still launched,
\* is not polled, and ends with the "cannot verify" report; it is never
\* skipped and never left unlaunched.
C1_UnresolvableIsLaunchedUnverified ==
    \A i \in Items :
        (Processed(i) /\ EndsWith(all_files[i], EXT_LNK) /\ Unresolvable(i))
            => /\ launches[i] = 1
               /\ ticks[i] = 0
               /\ reports[i] = {"CannotVerify"}

\* C2 (as claimed): every processed item has exactly one terminal report,
\* and no item is reported both Confirmed and TimedOut.
C2_ExactlyOneOutcome ==
    \A i \in Items :
        /\ Processed(i) => Cardinality(reports[i]) = 1
        /\ ~({"Confirmed", "TimedOut"} \subseteq reports[i])

\* C3 (as claimed): when the wait loop confirms a single-instance item, the
\* detector has iterated a window snapshot taken after the spawn and found a
\* window matching the item in it; an item that is never confirmed times out
\* after wait_time ticks.
C3_ConfirmedOnlyWhenDetected ==
    /\ (pc = "post" /\ SingleInstance(idx))
          => /\ lastDetect.iterated
             /\ \E w \in lastDetect.snapshot :
                   SingleMatch(all_files[idx],
                               get_target_info(all_files[idx], args), w)
    /\ \A i \in Items :
          (Processed(i) /\ "TimedOut" \in reports[i] /\ "Confirmed" \notin reports[i])
              => ticks[i] = args.wait_time

\* C6: when IsFileAlreadyRunning returns True at the pre-check of an item,
\* the item is reported as skipped and the loop has gone on; a skipped item
\* was never handed to launch_file, no process was started for it, its name
\* is not in launched_shortcuts and no tick was slept for it.
C6_RunningItemIsSkipped ==
    /\ (lastDetect.phase = "check" /\ lastDetect.result)
          => /\ "Skipped" \in reports[lastDetect.item]
             /\ Processed(lastDetect.item)
    /\ \A i \in Items :
          "Skipped" \in reports[i]
              => /\ reports[i] = {"Skipped"}
                 /\ launches[i] = 0
                 /\ spawns[i] = 0
                 /\ ticks[i] = 0
                 /\ delays[i] = 0
                 /\ Lower(all_files[i]) \notin launched_shortcuts

\* an item was found running by its window and skipped, and the run is over
C6_Witness ==
    /\ pc = "done"
    /\ \E i \in Items :
          /\ reports[i] = {"Skipped"}
          /\ lastDetect.item = i
          /\ lastDetect.result
          /\ lastDetect.iterated

\* C10 (as claimed): at most one process-start attempt per item, whatever
\* its kind; a failed launch ends the item as LaunchFailed, unrecorded and
\* unpolled.
C10_OneSpawnAttempt ==
    \A i \in Items :
        /\ spawns[i] <= 1
        /\ "LaunchFailed" \in reports[i]
              => /\ reports[i] = {"LaunchFailed"}
                 /\ Lower(all_files[i]) \notin launched_shortcuts
                 /\ ticks[i] = 0

\* C10 (amended): launch_file is called at most once per item and a failed
\* launch is not retried: the item ends as LaunchFailed, is not recorded in
\* launched_shortcuts, not polled and not followed by the delay.  Within the
\* one call an .ahk item starts at most AHK_PATHS + 1 processes in turn (the
\* interpreter locations, then the file association), any other item one.
C10_OneLaunchPerItem ==
    \A i \in Items :
        /\ launches[i] <= 1
        /\ spawns[i] <= (IF IsAhk(i) THEN AHK_PATHS + 1 ELSE 1)
        /\ (launches[i] = 1 /\ ~IsAhk(i)) => spawns[i] = 1
        /\ "LaunchFailed" \in reports[i]
              => /\ reports[i] = {"LaunchFailed"}
                 /\ Processed(i)
                 /\ launches[i] = 1
                 /\ Lower(all_files[i]) \notin launched_shortcuts
                 /\ ticks[i] = 0
                 /\ delays[i] = 0

\* an .ahk item whose every start attempt failed, and a later item processed
C10_Witness ==
    \E i \in Items :
        /\ IsAhk(i)
        /\ reports[i] = {"LaunchFailed"}
        /\ spawns[i] = AHK_PATHS + 1
        /\ Processed(i)

\* the most steps main() takes for one item: the pre-check, the launch, at
\* most wait_time turns of the wait loop (a sleep, then the test), and the
\* end of the wait
C11_StepsPerItem == 2 * args.wait_time + 3

\* main() is not stuck: the guard of PreCheck, Launch, Tick, Poll or Finish
\* holds
C11_CanStep ==
    \/ pc = "check"
    \/ pc = "launch" /\ PopenAnswers(all_files[idx]) # {}
    \/ pc = "poll" /\ counter < args.wait_time
    \/ pc = "sleep"
    \/ pc = "post" \/ (pc = "poll" /\ counter >= args.wait_time)

\* C11: whatever the files, the resolver, the process starts and the windows
\* do, the run ends, and it ends with every item processed.  main() is never
\* stuck before the end of the list and takes a bounded number of steps for
\* an item; the loop visits the items one at a time in list order: an item
\* has its report before the loop goes to the next one, nothing is done for
\* an item before its turn, no item is launched twice, and a resolution
\* failure, a failed launch or a timeout of one item does not keep the loop
\* from the items after it.
C11_RunTerminates ==
    /\ idx \in 1..(Len(all_files) + 1)
    /\ (pc = "done") = (idx = Len(all_files) + 1)
    /\ pc # "done" => C11_CanStep
    /\ lastDetect.called => lastDetect.item <= idx
    /\ \A i \in Items :
          /\ Processed(i) => /\ reports[i] # {}
                              /\ launches[i] <= 1
                              /\ steps[i] \in 1..C11_StepsPerItem
          /\ i = idx => steps[i] = (CASE pc = "check" -> 0
                                       [] pc = "launch" -> 1
                                       [] pc = "sleep" -> 1 + 2 * counter
                                       [] OTHER -> 2 + 2 * counter)
          /\ i = idx => counter <= args.wait_time
          /\ i > idx => /\ reports[i] = {}
                         /\ launches[i] = 0
                         /\ spawns[i] = 0
                         /\ ticks[i] = 0
                         /\ polls[i] = 0
                         /\ steps[i] = 0
                         /\ delays[i] = 0

\* the run is over, its first item failed to launch and a later item was
\* launched and confirmed
C11_Witness ==
    /\ pc = "done"
    /\ Len(all_files) >= 2
    /\ reports[1] = {"LaunchFailed"}
    /\ \E i \in Items : i > 1 /\ "Confirmed" \in reports[i]

\* the item's launch succeeded: launch_file returned True for it
Spawned(i) == launches[i] = 1 /\ "LaunchFailed" \notin reports[i]

\* C12: for a launched single-instance item the wait loop calls
\* IsFileAlreadyRunning once on every tick, after the tick's sleep, and
\* never sleeps more than wait_time ticks; the call that returns True
\* reports the item Confirmed on that very tick and leaves the loop, so that
\* no tick is slept and no call made for the item afterwards; while the
\* loop goes on, no call has been answered True.
C12_PollState ==
    /\ \A i \in Items :
          (Spawned(i) /\ SingleInstance(i))
              => /\ polls[i] = IF i = idx /\ pc = "sleep" THEN ticks[i] - 1
                                                          ELSE ticks[i]
                 /\ ticks[i] <= args.wait_time
    /\ pc = "sleep" => /\ counter = ticks[idx]
                       /\ counter \in 1..args.wait_time
                       /\ "Confirmed" \notin reports[idx]
    /\ (lastDetect.phase = "poll" /\ lastDetect.result)
          => "Confirmed" \in reports[lastDetect.item]
    /\ (pc = "poll" /\ SingleInstance(idx))
          => /\ "Confirmed" \notin reports[idx]
             /\ ticks[idx] > 0 => (lastDetect.phase = "poll" /\ ~lastDetect.result)
    /\ (pc = "post" /\ SingleInstance(idx))
          => /\ lastDetect.phase = "poll"
             /\ lastDetect.item = idx
             /\ lastDetect.result
             /\ "Confirmed" \in reports[idx]

C12_ConfirmedStopsPolling ==
    \A i \in Items :
        (SingleInstance(i) /\ "Confirmed" \in reports[i])
            => (ticks'[i] = ticks[i] /\ polls'[i] = polls[i])

C12_PolledOncePerTick ==
    [](C12_PollState) /\ [][C12_ConfirmedStopsPolling]_vars

\* a single-instance item was confirmed on a tick before the last one allowed
C12_Witness ==
    \E i \in Items :
        /\ Processed(i)
        /\ SingleInstance(i)
        /\ "Confirmed" \in reports[i]
        /\ polls[i] = 1
        /\ ticks[i] < args.wait_time

\* C13 (as claimed): the outcome of a launched multi-instance item depends
\* on wait_time alone: when wait_time >= 2 it is Confirmed, and only that,
\* after exactly 2 ticks, otherwise it is TimedOut, and only that, after
\* wait_time ticks; IsFileAlreadyRunning is not called in its wait loop.
C13_MultiOutcomeByWaitTime ==
    \A i \in Items :
        (Processed(i) /\ Spawned(i) /\ ~Unresolvable(i) /\ ~SingleInstance(i))
            => /\ polls[i] = 0
               /\ IF args.wait_time >= MULTI_TICKS
                  THEN reports[i] = {"Confirmed"} /\ ticks[i] = MULTI_TICKS
                  ELSE reports[i] = {"TimedOut"} /\ ticks[i] = args.wait_time

\* C14: with wait_time = 0 a launched single-instance item is reported
\* TimedOut, and nothing else, at once: no tick is slept for it, and
\* IsFileAlreadyRunning is not called for it after the launch.
C14_ZeroWaitTimesOutAtOnce ==
    args.wait_time = 0 =>
        \A i \in Items :
            (Spawned(i) /\ ~Unresolvable(i) /\ SingleInstance(i))
                => /\ ticks[i] = 0
                   /\ polls[i] = 0
                   /\ lastDetect.item = i => lastDetect.phase = "check"
                   /\ Processed(i) => reports[i] = {"TimedOut"}
                   /\ ~Processed(i) => (pc = "poll" /\ counter = 0 /\ reports[i] = {})

\* a single-instance item timed out without a tick, and the run is over
C14_Witness ==
    /\ args.wait_time = 0
    /\ pc = "done"
    /\ \E i \in Items :
          /\ SingleInstance(i)
          /\ Spawned(i)
          /\ reports[i] = {"TimedOut"}
          /\ steps[i] = 3

\* lines 785-786: the count main() prints when the loop is over
ReportedCount == Cardinality(launched_shortcuts)

\* C18: when the loop is over, the count main() prints is the number of
\* items whose launch succeeded in the run; these are the items reported
\* Confirmed or TimedOut, each counted once, and an item that was skipped,
\* could not be resolved or failed to launch is not counted.
C18_CountIsSuccessfulLaunches ==
    pc = "done" =>
        /\ ReportedCount = Cardinality({i \in Items : Spawned(i)})
        /\ \A i \in Items :
              (reports[i] \cap {"Confirmed", "TimedOut"} # {})
                  => /\ Spawned(i)
                     /\ Lower(all_files[i]) \in launched_shortcuts
        /\ \A i \in Items :
              (reports[i] \cap {"Skipped", "ResolutionFailed", "LaunchFailed"} # {})
                  => /\ ~Spawned(i)
                     /\ Lower(all_files[i]) \notin launched_shortcuts

\* a run with a launched item and an item that failed to launch
C18_Witness ==
    /\ pc = "done"
    /\ ReportedCount = 1
    /\ \E i, j \in Items :
          /\ "TimedOut" \in reports[i]
          /\ "LaunchFailed" \in reports[j]

\* C22: all through the run launched_shortcuts is the set of the lower-cased
\* names of the items whose launch has succeeded so far: it is empty when
\* the first item is looked at, a step adds at most the name of the item it
\* launched with success and removes nothing, and the pre-check, a skipped
\* or unparsable item, a failed launch and the wait loop leave it as it is.
C22_SessionIsSpawned ==
    /\ launched_shortcuts = {Lower(all_files[i]) : i \in {j \in Items : Spawned(j)}}
    /\ (idx = 1 /\ pc = "check") => launched_shortcuts = {}
    /\ \A i \in Items :
          (reports[i] \cap {"Skipped", "ResolutionFailed", "LaunchFailed"} # {})
              => Lower(all_files[i]) \notin launched_shortcuts

C22_SessionGrowsOnSpawnOnly ==
    /\ launched_shortcuts \subseteq launched_shortcuts'
    /\ launched_shortcuts' # launched_shortcuts
          => /\ pc = "launch"
             /\ launches'[idx] = launches[idx] + 1
             /\ "LaunchFailed" \notin reports'[idx]
             /\ launched_shortcuts' = launched_shortcuts \cup {Lower(all_files[idx])}
    /\ (pc # "launch" \/ "LaunchFailed" \in reports'[idx])
          => launched_shortcuts' = launched_shortcuts

C22_LaunchSession ==
    [](C22_SessionIsSpawned) /\ [][C22_SessionGrowsOnSpawnOnly]_vars

\* the run is over: one item was launched, another one was skipped
C22_Witness ==
    /\ pc = "done"
    /\ Cardinality(launched_shortcuts) = 1
    /\ \E i, j \in Items :
          /\ Spawned(i)
          /\ Lower(all_files[i]) \in launched_shortcuts
          /\ "Skipped" \in reports[j]

\* C23: time.sleep(args.delay) runs once for every item that ended Confirmed
\* or TimedOut, never more than once for an item, not while the item is
\* still polled, and not for an item that was skipped or failed to launch;
\* the step that sleeps it sleeps no tick, calls no detector, and is the
\* one by which the loop goes from the item to the next.
C23_DelayState ==
    \A i \in Items :
        /\ delays[i] <= 1
        /\ (Processed(i) /\ reports[i] \cap {"Confirmed", "TimedOut"} # {})
              => delays[i] = 1
        /\ ~Processed(i) => delays[i] = 0
        /\ (reports[i] \cap {"Skipped", "LaunchFailed"} # {}) => delays[i] = 0

C23_DelayEndsTheItem ==
    \A i \in Items :
        delays'[i] # delays[i]
            => /\ i = idx
               /\ idx' = idx + 1
               /\ ticks' = ticks
               /\ polls' = polls
               /\ reports'[i] \cap {"Confirmed", "TimedOut", "CannotVerify"} # {}

C23_DelayOncePerLaunchedItem ==
    [](C23_DelayState) /\ [][C23_DelayEndsTheItem]_vars

\* the run is over: a confirmed item was followed by the pause, a skipped
\* item and an item that failed to launch were not
C23_Witness ==
    /\ pc = "done"
    /\ \E i \in Items : "Confirmed" \in reports[i] /\ delays[i] = 1
    /\ \E i \in Items :
          reports[i] \cap {"Skipped", "LaunchFailed"} # {} /\ delays[i] = 0

(***************************************************************************)
(* Function-level specifications: the inputs of one call are drawn by the  *)
(* initial state, and the one action makes the call and keeps its result   *)
(* in ret.  The variables of main()'s loop stay as they are before it.     *)
(***************************************************************************)
MaxBase == 3

LoopIdle ==
    /\ idx = 1
    /\ counter = 0
    /\ reports = <<{}>>
    /\ spawns = <<0>>
    /\ launches = <<0>>
    /\ ticks = <<0>>
    /\ polls = <<0>>
    /\ steps = <<0>>
    /\ delays = <<0>>
    /\ lastDetect = NoDetect
    /\ envSteps = 0
    /\ ret = NoRet

Strings(chars, n) == UNION {[1..k -> chars] : k \in 1..n}

\* should_allow_multiple ---------------------------------------------------
T_n_exe == <<"n",".","e","x","e">>
T_m_exe == <<"m",".","e","x","e">>
T_m_bat == <<"m",".","b","a","t">>

PolicyFiles ==
    {base \o ext : base \in Strings({"n", "N", "-", " "}, MaxBase),
                   ext \in {EXT_LNK, EXT_EXE, EXT_BAT}}

PolicyTargets == {None, T_n_exe, T_m_exe, T_m_bat}

PolicyCommandLines ==
    [restrict_all : BOOLEAN, restrict_list : {{}, {<<"N">>}, {<<"B","A","T">>}},
     allow_list : {{}, {<<"n">>}, {<<"M">>}, {<<"b","a","t">>}}, wait_time : {0}]

InitPolicy ==
    /\ \E cli \in PolicyCommandLines :
          LET p == parse_arguments(cli)
          IN  /\ args = p.args
              /\ allow_multiple_default = p.allow_multiple_default
              /\ restricted_programs = p.restricted_programs
    /\ all_files \in {<<f>> : f \in PolicyFiles}
    \* a shortcut has any target or fails to parse (get_target_info lines
    \* 328-351); a native file is its own target (lines 345-349)
    /\ targetname \in IF EndsWith(all_files[1], EXT_LNK)
                       THEN PolicyTargets
                       ELSE {Lower(all_files[1])}
    /\ shell = TRUE
    /\ links = [f \in {all_files[1]} |-> BrokenLink]
    /\ oswindows = {}
    /\ dwmAvail = TRUE
    /\ procs = {}
    /\ launched_shortcuts = {}
    /\ pc = "decide"
    /\ LoopIdle

DecideCall ==
    /\ pc = "decide"
    /\ pc' = "decided"
    /\ ret' = [called |-> TRUE,
               value |-> should_allow_multiple(all_files[1], targetname, args)]
    /\ UNCHANGED <<args, allow_multiple_default, restricted_programs, shell, links,
                   oswindows, dwmAvail, procs, all_files, launched_shortcuts, idx,
                   counter, targetname, reports, spawns, launches, ticks, polls, steps, delays,
                   lastDetect, envSteps>>

SpecPolicy == InitPolicy /\ [][DecideCall]_vars

\* C4 (as claimed): a file name with "--" or " - " gives True for every
\* target name, None included, and every configuration.
C4_MarkerAlwaysAllows ==
    (pc = "decided" /\ HasMarker(all_files[1])) => ret.value

\* C4 (amended): a file name with "--" or " - " gives True for every target
\* name that is not None and every configuration, restrict-all without
\* allow list included.
C4_MarkerAllowsWhenResolved ==
    (pc = "decided" /\ HasMarker(all_files[1]) /\ targetname # None) => ret.value

\* a marked file, resolved, under restrict-all without allow list
C4_Witness ==
    /\ pc = "decided"
    /\ Contains(MARK_SPACED, all_files[1])
    /\ targetname # None
    /\ args.restrict_all
    /\ args.allowed_programs = {}
    /\ ret.value

\* C5 (as claimed): under restrict-all without allow list the result is
\* False for every file name and every target name.
C5_RestrictAllAlwaysDenies ==
    (pc = "decided" /\ args.restrict_all /\ args.allowed_programs = {})
        => ~ret.value

\* C5 (amended): under restrict-all without allow list the result is False
\* for every target name when the file name has no marker, and for the
\* target name None whatever the file name.
C5_RestrictAllDeniesUnmarked ==
    (/\ pc = "decided"
     /\ args.restrict_all
     /\ args.allowed_programs = {}
     /\ (targetname = None \/ ~HasMarker(all_files[1])))
        => ~ret.value

\* an unmarked, resolved file under restrict-all without allow list
C5_Witness ==
    /\ pc = "decided"
    /\ args.restrict_all
    /\ args.allowed_programs = {}
    /\ ~HasMarker(all_files[1])
    /\ targetname = T_n_exe
    /\ ~ret.value

\* the canonical name of a target: its lower-case name without extension
\* (targetname_noext of get_target_info, lines 339 and 348)
CanonicalTarget(t) == splitext(t)[1]

\* the base name of the item: its file name without extension
BaseName(filename) == splitext(filename)[1]

\* some entry of the list is, whatever its case, inside one of the two names
ListHit(list, filename, t) ==
    \E entry \in list :
        \/ Contains(Lower(entry), Lower(CanonicalTarget(t)))
        \/ Contains(Lower(entry), Lower(BaseName(filename)))

\* C15 (as claimed): without --restrict-all the default is True, and for a
\* resolved item whose file name has no marker the result is False exactly
\* when the canonical target name or the base name of the item contains an
\* entry of the restrict list, case ignored; otherwise it is the default.
C15_DefaultAllowDeniesListed ==
    (/\ pc = "decided"
     /\ ~args.restrict_all
     /\ targetname # None
     /\ ~HasMarker(all_files[1]))
        => /\ allow_multiple_default
           /\ ret.value = ~ListHit(args.restrict_list, all_files[1], targetname)

\* C16 (as claimed): under --restrict-all with an allow list, for a resolved
\* item whose file name has no marker the result is True exactly when the
\* canonical target name or the base name of the item contains an entry of
\* the allow list, case ignored.
C16_RestrictAllAllowsListed ==
    (/\ pc = "decided"
     /\ args.restrict_all
     /\ args.allow_list # {}
     /\ targetname # None
     /\ ~HasMarker(all_files[1]))
        => ret.value = ListHit(args.allow_list, all_files[1], targetname)

\* IsFileAlreadyRunning ----------------------------------------------------
DetectFiles == MainFiles

DetectCommandLines == {cli \in MainCommandLines : cli.wait_time = 0}

DetectLinks ==
    {BrokenLink,
     Link(<<"c","/","N",".","e","x","e">>, <<>>),
     Link(<<"c","/","m",".","e","x","e">>, <<"n">>),
     Link(<<"c","/","m",".","e","x","e">>, <<>>)}

AHK_EXE == <<"A","u","t","o","H","o","t","k","e","y",".","e","x","e">>

DetectWindows ==
    {OsWindow(1, <<"N">>, T_n_exe),
     OsWindow(2, <<"s">>, AHK_EXE),
     OsWindow(3, <<"x">>, AHK_EXE),
     OsWindow(4, <<"n">>, <<"x",".","e","x","e">>),
     [OsWindow(5, <<"n">>, T_n_exe) EXCEPT !.cloaked = TRUE],
     OsWindow(6, <<>>, T_n_exe),
     OsWindow(7, <<"S">>, <<"x",".","e","x","e">>)}

DetectProcs ==
    {[pid |-> 10, name |-> T_n_exe], [pid |-> 11, name |-> <<>>],
     [pid |-> 12, name |-> T_n_exe]}

InitDetect ==
    /\ \E cli \in DetectCommandLines :
          LET p == parse_arguments(cli)
          IN  /\ args = p.args
              /\ allow_multiple_default = p.allow_multiple_default
              /\ restricted_programs = p.restricted_programs
    /\ all_files \in {<<f>> : f \in DetectFiles}
    /\ targetname = None
    /\ shell \in BOOLEAN
    /\ links \in [{F_n_lnk} -> DetectLinks]
    /\ dwmAvail \in BOOLEAN
    /\ oswindows \in {ws \in SUBSET DetectWindows :
                         Cardinality(ws) <= MaxWins /\ (~dwmAvail => ws = {})}
    /\ procs \in {ps \in SUBSET DetectProcs : dwmAvail => ps = {}}
    /\ launched_shortcuts \in {{}, {Lower(all_files[1])}}
    /\ pc = "detect"
    /\ LoopIdle

DetectCall ==
    /\ pc = "detect"
    /\ pc' = "detected"
    /\ ret' = [called |-> TRUE, value |-> IsFileAlreadyRunning(all_files[1], args)]
    /\ UNCHANGED <<args, allow_multiple_default, restricted_programs, shell, links,
                   oswindows, dwmAvail, procs, all_files, launched_shortcuts, idx,
                   counter, targetname, reports, spawns, launches, ticks, polls, steps, delays,
                   lastDetect, envSteps>>

\* should_allow_multiple on the same inputs, after the call above; the
\* result of IsFileAlreadyRunning stays in ret.value
PolicyCall ==
    /\ pc = "detected"
    /\ pc' = "policy"
    /\ ret' = [called |-> TRUE,
               value |-> ret.value,
               allow |-> should_allow_multiple(all_files[1],
                             get_target_info(all_files[1], args).targetname, args)]
    /\ UNCHANGED <<args, allow_multiple_default, restricted_programs, shell, links,
                   oswindows, dwmAvail, procs, all_files, launched_shortcuts, idx,
                   counter, targetname, reports, spawns, launches, ticks, polls, steps, delays,
                   lastDetect, envSteps>>

SpecDetect == InitDetect /\ [][DetectCall \/ PolicyCall]_vars

\* the inputs of the call, as the claims name them
D_file == all_files[1]
D_info == get_target_info(D_file, args)
D_base == Lower(splitext(D_file)[1])
D_launched == Lower(D_file) \in launched_shortcuts
D_allowMultiple == should_allow_multiple(D_file, D_info.targetname, args)

\* C7: a file whose lowercased name is in launched_shortcuts is running,
\* whatever the windows, the policy and the outcome of parsing it.
C7_LaunchedIsRunning ==
    (pc = "detected" /\ D_launched) => ret.value

\* a launched shortcut that cannot be parsed, with no window at all
C7_Witness ==
    /\ pc = "detected"
    /\ D_launched
    /\ D_info.targetname = None
    /\ Desktop = {}
    /\ ret.value

\* the title or the process name of the window contains the file's base
\* name or its target name without extension (compared in lower case)
NameHit(window) ==
    \E name \in {D_base} \cup (IF D_info.targetname = None
                              THEN {} ELSE {D_info.targetname_noext}) :
        \/ Contains(name, Lower(window.text))
        \/ Contains(name, Lower(window.process_name))

NoNameHit == \A window \in Desktop : window.is_on_active_desktop => ~NameHit(window)

\* C8 (as claimed): not launched, single-instance, and no window of the
\* snapshot names the file or its target: the result is False.
C8_NoMatchingWindowNotRunning ==
    (pc = "detected" /\ ~D_launched /\ ~D_allowMultiple /\ NoNameHit)
        => ~ret.value

\* C8 (amended): as claimed, provided the arguments of the shortcut do not
\* contain the file's base name; when they do, any window of the snapshot
\* makes the result True; and the result is False on an empty snapshot in
\* every case.
C8_NoMatchingWindowNoArgumentHit ==
    /\ (/\ pc = "detected"
        /\ ~D_launched
        /\ ~D_allowMultiple
        /\ NoNameHit
        /\ (D_info.targetname # None => ~Contains(D_base, D_info.arguments)))
          => ~ret.value
    /\ (/\ pc = "detected"
        /\ ~D_launched
        /\ ~D_allowMultiple
        /\ D_info.targetname # None
        /\ Contains(D_base, D_info.arguments)
        /\ Desktop # {})
          => ret.value
    /\ (pc = "detected" /\ ~D_launched /\ ~D_allowMultiple /\ Desktop = {})
          => ~ret.value

\* a resolved single-instance shortcut and a snapshot with a window that
\* does not name it
C8_Witness ==
    /\ pc = "detected"
    /\ ~D_launched
    /\ ~D_allowMultiple
    /\ D_file = F_n_lnk
    /\ D_info.targetname # None
    /\ Desktop # {}
    /\ NoNameHit
    /\ ~ret.value

TitleHit == \E window \in Desktop :
    window.is_on_active_desktop /\ Contains(D_base, Lower(window.text))

\* C9 (as claimed): multiple instances allowed and a window title contains
\* the base name: the result is True.
C9_TitleMatchIsRunning ==
    (pc = "detected" /\ D_allowMultiple /\ TitleHit) => ret.value

\* C9 (amended): as claimed, for a file that can be parsed.
C9_TitleMatchIsRunningWhenResolved ==
    (pc = "detected" /\ D_info.targetname # None /\ D_allowMultiple /\ TitleHit)
        => ret.value

\* a resolved multi-instance file, not launched, whose only matching window
\* matches by title and not by process name
C9_Witness ==
    /\ pc = "detected"
    /\ ~D_launched
    /\ D_info.targetname # None
    /\ D_allowMultiple
    /\ Desktop = enumerate_desktop_windows({OsWindow(4, <<"n">>, <<"x",".","e","x","e">>)})
    /\ TitleHit
    /\ ret.value

\* C17: for a file that cannot be parsed, should_allow_multiple returns
\* allow_multiple_default (False under --restrict-all, True otherwise)
\* whatever the file name and the lists say, and IsFileAlreadyRunning
\* returns False when the file was not launched in this run, whatever the
\* windows are.
C17_UnresolvableUsesDefault ==
    (pc = "policy" /\ D_info.targetname = None)
        => /\ ret.allow = allow_multiple_default
           /\ allow_multiple_default = ~args.restrict_all
           /\ ~D_launched => ~ret.value

\* an unparsable shortcut, not launched, whose base name is in the restrict
\* list and in the title of a window
C17_Witness ==
    /\ pc = "policy"
    /\ D_info.targetname = None
    /\ ~D_launched
    /\ D_base \in restricted_programs
    /\ \E window \in Desktop : Contains(D_base, Lower(window.text))
    /\ ret.allow
    /\ ~ret.value

(***************************************************************************)
(* One SimpleDesktop iterated twice (lines 137-146): each iteration calls  *)
(* enumerate_desktop_windows afresh; ret.snapshots keeps what the calls    *)
(* returned, and the windows may change between the two calls.             *)
(* The cloak query of every window ends as OsWindow says: line 56 raises.   *)
(***************************************************************************)
CaptureLooks ==
    [title : {<<>>, <<"n">>}, visible : BOOLEAN, cloaked : BOOLEAN]

CaptureWindow(hwnd, look) ==
    [OsWindow(hwnd, look.title, T_n_exe)
        EXCEPT !.visible = look.visible, !.cloaked = look.cloaked]

\* EnumWindows gives every top-level window once: one window per handle
CaptureWindowSets ==
    UNION {{{CaptureWindow(h, look[h]) : h \in hs} : look \in [hs -> CaptureLooks]} :
              hs \in SUBSET (1..MaxWins)}

InitCapture ==
    /\ args = parse_arguments([restrict_all |-> FALSE, restrict_list |-> {},
                               allow_list |-> {}, wait_time |-> 0]).args
    /\ allow_multiple_default = TRUE
    /\ restricted_programs = {}
    /\ all_files = <<F_n_lnk>>
    /\ targetname = None
    /\ shell = TRUE
    /\ links = [f \in {F_n_lnk} |-> BrokenLink]
    /\ dwmAvail = TRUE
    /\ oswindows \in CaptureWindowSets
    /\ procs = {}
    /\ launched_shortcuts = {}
    /\ pc = "capture"
    /\ idx = 1
    /\ counter = 0
    /\ reports = <<{}>>
    /\ spawns = <<0>>
    /\ launches = <<0>>
    /\ ticks = <<0>>
    /\ polls = <<0>>
    /\ steps = <<0>>
    /\ delays = <<0>>
    /\ lastDetect = NoDetect
    /\ envSteps = 0
    /\ ret = [called |-> FALSE, value |-> FALSE, snapshots |-> <<>>]

\* SimpleDesktop.__iter__, lines 144-146
CaptureCall ==
    /\ pc \in {"capture", "captured"}
    /\ pc' = IF pc = "capture" THEN "captured" ELSE "recaptured"
    /\ ret' = [called |-> TRUE, value |-> FALSE,
               snapshots |-> Append(ret.snapshots, enumerate_desktop_windows(oswindows))]
    /\ UNCHANGED <<args, allow_multiple_default, restricted_programs, shell, links,
                   oswindows, dwmAvail, procs, all_files, launched_shortcuts, idx,
                   counter, targetname, reports, spawns, launches, ticks, polls, steps, delays,
                   lastDetect, envSteps>>

\* environment: between the two calls a window is closed, hidden or shown
CaptureWindowsChange ==
    /\ pc = "captured"
    /\ envSteps < MaxEnv
    /\ envSteps' = envSteps + 1
    /\ \E w \in oswindows :
          \/ oswindows' = oswindows \ {w}
          \/ oswindows' = (oswindows \ {w}) \cup {[w EXCEPT !.visible = ~w.visible]}
    /\ UNCHANGED <<args, allow_multiple_default, restricted_programs, shell, links,
                   dwmAvail, procs, all_files, launched_shortcuts, idx, pc,
                   counter, targetname, reports, spawns, launches, ticks, polls, steps, delays,
                   lastDetect, ret>>

SpecCapture == InitCapture /\ [][CaptureCall \/ CaptureWindowsChange]_vars

\* the windows are as the last call found them
CaptureIsCurrent == (pc = "captured" /\ envSteps = 0) \/ pc = "recaptured"

LastCapture == ret.snapshots[Len(ret.snapshots)]

Captured(w) == \E r \in LastCapture : r.id = w.hwnd /\ r.text = w.title

\* C19 (as claimed): a call returns a record for a window exactly when the
\* window has a title, is visible and is not cloaked; every record is
\* flagged as on the active desktop and is the record of a live window; two
\* calls with no window change between them return the same records.
C19_CaptureIsTitledVisibleUncloaked ==
    /\ CaptureIsCurrent =>
          /\ \A w \in oswindows :
                Captured(w) = (w.title # <<>> /\ w.visible /\ ~w.cloaked)
          /\ \A r \in LastCapture :
                /\ r.is_on_active_desktop
                /\ \E w \in oswindows : r.id = w.hwnd /\ r.text = w.title
    /\ (pc = "recaptured" /\ envSteps = 0) => ret.snapshots[1] = ret.snapshots[2]

\* C20: a cloak query that fails never aborts the enumeration: the call
\* returns, every titled window whose query failed is returned exactly when
\* it is flagged visible, whatever its cloak attribute and whatever the
\* queries of the other windows did, and an untitled window never is.
C20_FailedQueryFallsBackToVisible ==
    CaptureIsCurrent =>
        /\ Len(ret.snapshots) = IF pc = "captured" THEN 1 ELSE 2
        /\ \A w \in oswindows :
              /\ (w.title # <<>> /\ w.dwm # "ok") => (Captured(w) = w.visible)
              /\ w.title = <<>> => ~Captured(w)

\* two windows whose queries failed: the visible one, cloaked, is returned,
\* the hidden one is not
C20_Witness ==
    /\ CaptureIsCurrent
    /\ \E w1, w2 \in oswindows :
          /\ w1.hwnd # w2.hwnd
          /\ w1.title # <<>> /\ w1.dwm = "raise" /\ w1.visible /\ w1.cloaked
          /\ Captured(w1)
          /\ w2.title # <<>> /\ w2.dwm = "raise" /\ ~w2.visible
          /\ ~Captured(w2)

(***************************************************************************)
(* Further properties of one call of IsFileAlreadyRunning (SpecDetect).    *)
(***************************************************************************)
NamedProcs == {p \in procs : p.name # <<>>}

\* the check IsFileAlreadyRunning makes on one record, by the policy
RecordMatch(window) ==
    IF D_allowMultiple THEN MultiMatch(D_file, window)
                       ELSE SingleMatch(D_file, D_info, window)

\* C21: when SimpleDesktop() cannot be built, IsFileAlreadyRunning still
\* returns; what it iterates holds exactly one record per process with a
\* non-empty name (its pid, and its name as title and as process name), each
\* flagged as on the active desktop, and every such record takes part in
\* the check: the result for a parsed file not launched in this run is
\* whether the record of some named process matches.
C21_FallbackOneRecordPerNamedProcess ==
    (pc = "detected" /\ ~dwmAvail)
        => /\ ret.called
           /\ Cardinality(Desktop) = Cardinality(NamedProcs)
           /\ \A p \in NamedProcs :
                 [id |-> p.pid, text |-> p.name, process_name |-> p.name,
                  is_on_active_desktop |-> TRUE] \in Desktop
           /\ \A r \in Desktop :
                 /\ r.is_on_active_desktop
                 /\ \E p \in NamedProcs : r.id = p.pid
           /\ (~D_launched /\ D_info.targetname # None)
                 => ret.value = (\E p \in NamedProcs :
                                    RecordMatch(WindowInfo(p.pid, p.name, p.name)))

\* the fallback found the target among two processes of one name and a
\* process without name
C21_Witness ==
    /\ pc = "detected"
    /\ ~dwmAvail
    /\ procs = DetectProcs
    /\ Cardinality(Desktop) = 2
    /\ ~D_launched
    /\ ret.value

(***************************************************************************)
(* should_allow_multiple and IsFileAlreadyRunning called twice for one     *)
(* item, with the letter case of one of their inputs changed between the   *)
(* two calls; ret.results keeps the results, ret.recased the input that    *)
(* was changed.                                                            *)
(***************************************************************************)
loopVars == <<idx, counter, reports, spawns, launches, ticks, polls, steps,
              delays, lastDetect, envSteps>>

Recase(str, up) == IF up THEN Upper(str) ELSE Lower(str)

InitCase ==
    /\ \E cli \in DetectCommandLines :
          LET p == parse_arguments(cli)
          IN  /\ args = p.args
              /\ allow_multiple_default = p.allow_multiple_default
              /\ restricted_programs = p.restricted_programs
    /\ all_files \in {<<f>> : f \in DetectFiles}
    /\ targetname = None
    /\ shell \in BOOLEAN
    /\ links \in [{F_n_lnk} -> DetectLinks]
    /\ dwmAvail = TRUE
    /\ oswindows \in {ws \in SUBSET DetectWindows : Cardinality(ws) <= MaxWins}
    /\ procs = {}
    /\ launched_shortcuts \in {{}, {Lower(all_files[1])}}
    /\ pc = "case1"
    /\ idx = 1
    /\ counter = 0
    /\ reports = <<{}>>
    /\ spawns = <<0>>
    /\ launches = <<0>>
    /\ ticks = <<0>>
    /\ polls = <<0>>
    /\ steps = <<0>>
    /\ delays = <<0>>
    /\ lastDetect = NoDetect
    /\ envSteps = 0
    /\ ret = [called |-> FALSE, value |-> FALSE, results |-> <<>>, recased |-> "none"]

\* the two functions on the item as it is now
CaseCall ==
    /\ pc \in {"case1", "case2"}
    /\ pc' = IF pc = "case1" THEN "recase" ELSE "cased"
    /\ LET filename == all_files[1]
           r == [allow |-> should_allow_multiple(filename,
                               get_target_info(filename, args).targetname, args),
                 running |-> IsFileAlreadyRunning(filename, args)]
       IN  ret' = [ret EXCEPT !.called = TRUE, !.results = Append(@, r)]
    /\ UNCHANGED <<args, allow_multiple_default, restricted_programs, shell, links,
                   oswindows, dwmAvail, procs, all_files, launched_shortcuts,
                   targetname, loopVars>>

\* the file has the same name in other letters; a shortcut keeps the ".lnk"
\* by which main() lists it (line 645), and stands for the same link
RecaseFile ==
    /\ pc = "recase"
    /\ pc' = "case2"
    /\ LET filename == all_files[1]
           root == splitext(filename)[1]
           ext == splitext(filename)[2]
       IN  \E upRoot, upExt \in BOOLEAN :
             LET renamed == Recase(root, upRoot)
                               \o (IF ext = EXT_LNK THEN ext ELSE Recase(ext, upExt))
             IN  /\ all_files' = <<renamed>>
                 /\ links' = IF filename \in DOMAIN links
                              THEN [f \in {renamed} |-> links[filename]]
                              ELSE links
    /\ ret' = [ret EXCEPT !.recased = "file"]
    /\ UNCHANGED <<args, allow_multiple_default, restricted_programs, shell,
                   oswindows, dwmAvail, procs, launched_shortcuts, targetname, loopVars>>

\* the arguments of the shortcut in other letters
RecaseArguments ==
    /\ pc = "recase"
    /\ pc' = "case2"
    /\ \E up \in BOOLEAN :
          links' = [f \in DOMAIN links |->
                       [links[f] EXCEPT !.Arguments = Recase(@, up)]]
    /\ ret' = [ret EXCEPT !.recased = "arguments"]
    /\ UNCHANGED <<args, allow_multiple_default, restricted_programs, shell,
                   oswindows, dwmAvail, procs, all_files, launched_shortcuts,
                   targetname, loopVars>>

\* the titles and the process names of the windows in other letters
RecaseWindows ==
    /\ pc = "recase"
    /\ pc' = "case2"
    /\ \E upTitle, upProcess \in BOOLEAN :
          oswindows' = {[w EXCEPT !.title = Recase(@, upTitle),
                                  !.process_name = Recase(@, upProcess)] :
                           w \in oswindows}
    /\ ret' = [ret EXCEPT !.recased = "windows"]
    /\ UNCHANGED <<args, allow_multiple_default, restricted_programs, shell, links,
                   dwmAvail, procs, all_files, launched_shortcuts, targetname, loopVars>>

\* the entries of --restrict-multiple and --allow-multiple in other letters
RecaseEntries ==
    /\ pc = "recase"
    /\ pc' = "case2"
    /\ \E up \in BOOLEAN :
          LET p == parse_arguments(
                       [restrict_all |-> args.restrict_all,
                        restrict_list |-> {Recase(e, up) : e \in args.restrict_list},
                        allow_list |-> {Recase(e, up) : e \in args.allow_list},
                        wait_time |-> args.wait_time])
          IN  /\ args' = p.args
              /\ allow_multiple_default' = p.allow_multiple_default
              /\ restricted_programs' = p.restricted_programs
    /\ ret' = [ret EXCEPT !.recased = "entries"]
    /\ UNCHANGED <<shell, links, oswindows, dwmAvail, procs, all_files,
                   launched_shortcuts, targetname, loopVars>>

NextCase ==
    CaseCall \/ RecaseFile \/ RecaseArguments \/ RecaseWindows \/ RecaseEntries

SpecCase == InitCase /\ [][NextCase]_vars

\* C24 (as claimed): the results of should_allow_multiple and of
\* IsFileAlreadyRunning are the same before and after a change of nothing
\* but the letter case of the file name, of the arguments of the shortcut,
\* of the window titles and process names, or of the list entries.
C24_CaseChangesNothing ==
    pc = "cased" => ret.results[1] = ret.results[2]

(***************************************************************************)
(* should_allow_multiple called twice for one item under one mode, with    *)
(* the list of the other mode changed on the command line between the two  *)
(* calls; ret.results keeps the results, ret.before the first arguments.   *)
(***************************************************************************)
ModeFiles ==
    {base \o ext : base \in Strings({"n", "-"}, MaxBase), ext \in {EXT_LNK, EXT_BAT}}

InitMode ==
    /\ \E cli \in PolicyCommandLines :
          LET p == parse_arguments(cli)
          IN  /\ args = p.args
              /\ allow_multiple_default = p.allow_multiple_default
              /\ restricted_programs = p.restricted_programs
    /\ all_files \in {<<f>> : f \in ModeFiles}
    /\ targetname \in IF EndsWith(all_files[1], EXT_LNK)
                       THEN PolicyTargets
                       ELSE {Lower(all_files[1])}
    /\ shell = TRUE
    /\ links = [f \in {all_files[1]} |-> BrokenLink]
    /\ oswindows = {}
    /\ dwmAvail = TRUE
    /\ procs = {}
    /\ launched_shortcuts = {}
    /\ pc = "mode1"
    /\ idx = 1
    /\ counter = 0
    /\ reports = <<{}>>
    /\ spawns = <<0>>
    /\ launches = <<0>>
    /\ ticks = <<0>>
    /\ polls = <<0>>
    /\ steps = <<0>>
    /\ delays = <<0>>
    /\ lastDetect = NoDetect
    /\ envSteps = 0
    /\ ret = [called |-> FALSE, value |-> FALSE, results |-> <<>>, before |-> args]

ModeCall ==
    /\ pc \in {"mode1", "mode2"}
    /\ pc' = IF pc = "mode1" THEN "relist" ELSE "moded"
    /\ ret' = [ret EXCEPT !.called = TRUE,
                          !.results = Append(@, should_allow_multiple(all_files[1],
                                                    targetname, args))]
    /\ UNCHANGED <<args, allow_multiple_default, restricted_programs, shell, links,
                   oswindows, dwmAvail, procs, all_files, launched_shortcuts,
                   targetname, loopVars>>

\* the same command line but for the list of the mode that is not active:
\* --restrict-multiple under --restrict-all, --allow-multiple without it
ChangeOtherList ==
    /\ pc = "relist"
    /\ pc' = "mode2"
    /\ \E cli \in PolicyCommandLines :
          /\ cli.restrict_all = args.restrict_all
          /\ cli.wait_time = args.wait_time
          /\ IF args.restrict_all
             THEN cli.allow_list = args.allow_list
             ELSE cli.restrict_list = args.restrict_list
          /\ LET p == parse_arguments(cli)
             IN  /\ args' = p.args
                 /\ allow_multiple_default' = p.allow_multiple_default
                 /\ restricted_programs' = p.restricted_programs
    /\ UNCHANGED <<shell, links, oswindows, dwmAvail, procs, all_files,
                   launched_shortcuts, targetname, loopVars, ret>>

SpecMode == InitMode /\ [][ModeCall \/ ChangeOtherList]_vars

\* C25: one mode holds for the run: the default is False exactly under
\* --restrict-all, the restrict list is in force only without it and the
\* allow list only with it; and the result of should_allow_multiple is the
\* same whatever the list of the other mode is.
C25_OtherListHasNoEffect ==
    /\ allow_multiple_default = ~args.restrict_all
    /\ args.restrict_all => restricted_programs = {}
    /\ ~args.restrict_all => args.allowed_programs = {}
    /\ args.restrict_all = ret.before.restrict_all
    /\ pc = "moded" => ret.results[1] = ret.results[2]

\* under --restrict-all a restrict list was added that names the item, and
\* the item is denied multiple instances before and after
C25_Witness ==
    /\ pc = "moded"
    /\ args.restrict_all
    /\ ret.before.restrict_list = {}
    /\ targetname # None
    /\ ~HasMarker(all_files[1])
    /\ ListHit(args.restrict_list, all_files[1], targetname)
    /\ ret.results = <<FALSE, FALSE>>

\* C26 (as claimed): for an AutoHotkey script not launched in this run, the
\* result of IsFileAlreadyRunning is, under either policy, whether the
\* title of some window of the desktop contains the base name of the
\* script, whatever processes own the windows.
C26_AhkDetectedByTitleAlone ==
    LET filename == all_files[1]
    IN  (/\ pc \in {"recase", "cased"}
         /\ Lower(splitext(filename)[2]) = EXT_AHK
         /\ Lower(filename) \notin launched_shortcuts)
            => ret.results[Len(ret.results)].running
                  = (\E window \in Desktop :
                        /\ window.is_on_active_desktop
                        /\ Contains(Lower(splitext(filename)[1]), Lower(window.text)))

====
